---------------------------- MODULE Spec2Model ----------------------------
(***************************************************************************)
(* EcoLedger: the hash chain over the activity_logs collection.            *)
(*                                                                         *)
(* The store is the activity_logs collection in ascending _id order.  The  *)
(* writers are the create_activity endpoint (backend/app.py), one request  *)
(* per process, and the seeding routine create_activities_for_user         *)
(* (backend/seed_10users_with_activities.py).  The reader is verify_chain  *)
(* (backend/hashing.py).  delete_account (backend/app.py) removes the      *)
(* records of one user and writes to the audit table through log_audit     *)
(* (backend/cassandra_service.py).  Every await on the database is a point *)
(* where other requests run, so each database call is an action of its own.*)
(*                                                                         *)
(* verify_chain_for_user is imported and called by backend/app.py but is   *)
(* not defined in backend/hashing.py; it is modelled from section 4.3 of   *)
(* the specification.                                                      *)
(*                                                                         *)
(* Strings are TLA+ strings, so the hashed payload is the concatenation    *)
(* the code builds.  SHA-256 is taken to be collision free: hexdigest is   *)
(* modelled by an injective bracketing of the payload.                     *)
(***************************************************************************)
EXTENDS Naturals, Sequences, FiniteSets, TLC

\* ------------------------------------------------------------ bounds
NumProcs == 2          \* concurrent create_activity requests
MaxRecords == 3        \* documents ever inserted into activity_logs
MaxClock == 1          \* the wall clock reads 0..MaxClock
MaxSeedActs == 2       \* activities one seeding call inserts
MaxLiveRecords == 2    \* documents inserted where termination is checked

\* ------------------------------------------------------- program constants
HashLen == 64          \* hexdigest width; the genesis hash is "0" * 64
NoId == 0              \* result.get("invalid_record_id") when absent: None

Procs == 1 .. NumProcs
Users == {"u1", "u2"}
ValidTypes == {"car", "bus"}          \* keys of ActivityMapper.ACTIVITY_MAPPING
RequestTypes == {"car", "helicopter"}  \* activity_type values callers send
BodyTypes == {"car", " Car ", "helicopter", "", "  "}   \* and as the body has them
Emissions == {120}                    \* co2e in hundredths of a kg: 1.2
TamperEmissions == Emissions \cup {121}

VARIABLES
  store,      \* activity_logs, ascending _id: the ordered scan of the collection
  nextId,     \* the next _id the store assigns
  clock,      \* the wall clock datetime.now(WIB) reads
  pc,         \* pc[p]: where request p of create_activity stands
  loc,        \* loc[p]: the locals of request p
  returned,   \* number of create_activity calls that returned an ActivityResponse
  vpc,        \* where the verify_chain call stands
  vtotal,     \* verify_chain: total_records, from count_documents
  vscan,      \* verify_chain: the documents its cursor returned
  vresult,    \* verify_chain: the dictionary it returned
  spc,        \* where create_activities_for_user stands
  sloc,       \* its locals: user_id, previous_hash, activities left, last time
  tamper,     \* the overwrite made behind the application's back, if any
  users,      \* the user_id of every document of the users collection
  audit,      \* the rows of the Cassandra table activity_audit, oldest first
  dpc,        \* where the delete_account call stands
  dloc,       \* its locals: current_user.user_id, deleted_activities.deleted_count
  hin,        \* the two argument tuples generate_hash is called with
  hout        \* what it made of them: the payloads and the digests

vars == <<store, nextId, clock, pc, loc, returned, vpc, vtotal, vscan, vresult,
          spc, sloc, tamper, users, audit, dpc, dloc, hin, hout>>

appVars == <<pc, loc, returned>>
verVars == <<vpc, vtotal, vscan, vresult>>
seedVars == <<spc, sloc>>
delVars == <<users, audit, dpc, dloc>>
hashVars == <<hin, hout>>

\* ------------------------------------------------------------ strings
RECURSIVE Repeat(_, _)
Repeat(c, n) == IF n = 0 THEN "" ELSE c \o Repeat(c, n - 1)

\* "0" * 64
get_genesis_hash == Repeat("0", HashLen)

\* str(carbon_emission) of a float with two decimals, given in hundredths:
\* the shortest repr, 4.87 -> "4.87", 1.20 -> "1.2", 9.00 -> "9.0".
PyStr(c) ==
  LET whole == c \div 100
      frac == c % 100
  IN  IF frac % 10 = 0
        THEN ToString(whole) \o "." \o ToString(frac \div 10)
        ELSE ToString(whole) \o "." \o ToString(frac \div 10) \o ToString(frac % 10)

\* datetime.isoformat() of the clock reading t, WIB offset
isoformat(t) == "2024-12-29T10:00:0" \o ToString(t) \o "+07:00"

\* hashlib.sha256(payload).hexdigest(), collision free
sha256_hexdigest(payload) == "<" \o payload \o ">"

\* the payload with str(carbon_emission) left out
Payload_NoEmission(previous_hash, user_id, activity_type, carbon_emission, timestamp) ==
  previous_hash \o user_id \o activity_type \o timestamp

\* f"{previous_hash}{user_id}{activity_type}{emission_str}{timestamp}"
Payload(previous_hash, user_id, activity_type, carbon_emission, timestamp) ==
  previous_hash \o user_id \o activity_type \o PyStr(carbon_emission) \o timestamp

generate_hash(previous_hash, user_id, activity_type, carbon_emission, timestamp) ==
  sha256_hexdigest(
    Payload(previous_hash, user_id, activity_type, carbon_emission, timestamp))

verify_hash(record) ==
  generate_hash(record.previous_hash, record.user_id, record.activity_type,
                record.emission, record.timestamp) = record.current_hash

\* ------------------------------------------------------------ verify_chain
ResultValid(total_records) ==
  [valid |-> TRUE, total_records |-> total_records,
   message |-> "Semua record valid", record_number |-> 0,
   invalid_record_id |-> NoId]

ResultEmpty ==
  [valid |-> TRUE, total_records |-> 0,
   message |-> "Database kosong", record_number |-> 0,
   invalid_record_id |-> NoId]

ResultInvalid(total_records, message, record_number, record) ==
  [valid |-> FALSE, total_records |-> total_records,
   message |-> message, record_number |-> record_number,
   invalid_record_id |-> record.id]

\* the loop without CHECK 2: only the links are compared
RECURSIVE ChainLoop_LinkOnly(_, _, _, _)
ChainLoop_LinkOnly(cursor, i, previous_hash, total_records) ==
  IF i > Len(cursor)
    THEN ResultValid(total_records)
    ELSE LET record == cursor[i] IN
      IF record.previous_hash # previous_hash
        THEN ResultInvalid(total_records, "Chain terputus", i, record)
      ELSE ChainLoop_LinkOnly(cursor, i + 1, record.current_hash, total_records)

\* the loop linking each record to the recomputed digest of the one before it
RECURSIVE ChainLoop_Recomputed(_, _, _, _)
ChainLoop_Recomputed(cursor, i, previous_hash, total_records) ==
  IF i > Len(cursor)
    THEN ResultValid(total_records)
    ELSE LET record == cursor[i] IN
      IF record.previous_hash # previous_hash
        THEN ResultInvalid(total_records, "Chain terputus", i, record)
      ELSE ChainLoop_Recomputed(cursor, i + 1,
             generate_hash(record.previous_hash, record.user_id,
                           record.activity_type, record.emission,
                           record.timestamp),
             total_records)

\* the loop without the early returns: it goes on and reports the last failure
RECURSIVE ChainLoop_LastFailure(_, _, _, _)
ChainLoop_LastFailure(cursor, i, previous_hash, total_records) ==
  IF i > Len(cursor)
    THEN ResultValid(total_records)
    ELSE LET record == cursor[i]
             rest == ChainLoop_LastFailure(cursor, i + 1, record.current_hash,
                                           total_records)
         IN
      IF ~rest.valid THEN rest
      ELSE IF record.previous_hash # previous_hash
        THEN ResultInvalid(total_records, "Chain terputus", i, record)
      ELSE IF ~verify_hash(record)
        THEN ResultInvalid(total_records, "Hash tidak valid", i, record)
      ELSE rest

\* the loop making its two checks on the newest document only
RECURSIVE ChainLoop_NewestOnly(_, _, _, _)
ChainLoop_NewestOnly(cursor, i, previous_hash, total_records) ==
  IF i > Len(cursor)
    THEN ResultValid(total_records)
    ELSE LET record == cursor[i] IN
      IF i < Len(cursor)
        THEN ChainLoop_NewestOnly(cursor, i + 1, record.current_hash,
                                  total_records)
      ELSE IF record.previous_hash # previous_hash
        THEN ResultInvalid(total_records, "Chain terputus", i, record)
      ELSE IF ~verify_hash(record)
        THEN ResultInvalid(total_records, "Hash tidak valid", i, record)
      ELSE ResultValid(total_records)

\* the loop with CHECK 2 made before CHECK 1
RECURSIVE ChainLoop_DigestFirst(_, _, _, _)
ChainLoop_DigestFirst(cursor, i, previous_hash, total_records) ==
  IF i > Len(cursor)
    THEN ResultValid(total_records)
    ELSE LET record == cursor[i] IN
      IF ~verify_hash(record)
        THEN ResultInvalid(total_records, "Hash tidak valid", i, record)
      ELSE IF record.previous_hash # previous_hash
        THEN ResultInvalid(total_records, "Chain terputus", i, record)
      ELSE ChainLoop_DigestFirst(cursor, i + 1, record.current_hash, total_records)

\* the loop without CHECK 1: only the digests are recomputed
RECURSIVE ChainLoop_DigestOnly(_, _, _, _)
ChainLoop_DigestOnly(cursor, i, previous_hash, total_records) ==
  IF i > Len(cursor)
    THEN ResultValid(total_records)
    ELSE LET record == cursor[i] IN
      IF ~verify_hash(record)
        THEN ResultInvalid(total_records, "Hash tidak valid", i, record)
      ELSE ChainLoop_DigestOnly(cursor, i + 1, record.current_hash, total_records)

\* the loop `async for record in cursor`, from document i of the cursor on
RECURSIVE ChainLoop(_, _, _, _)
ChainLoop(cursor, i, previous_hash, total_records) ==
  IF i > Len(cursor)
    THEN ResultValid(total_records)
    ELSE LET record == cursor[i] IN
      IF record.previous_hash # previous_hash
        THEN ResultInvalid(total_records, "Chain terputus", i, record)
      ELSE IF ~verify_hash(record)
        THEN ResultInvalid(total_records, "Hash tidak valid", i, record)
      ELSE ChainLoop(cursor, i + 1, record.current_hash, total_records)

\* verify_chain on one consistent view of the collection
verify_chain(docs) ==
  IF Len(docs) = 0 THEN ResultEmpty
  ELSE ChainLoop(docs, 1, get_genesis_hash, Len(docs))

\* ------------------------------------------------------------ create_activity
NoLocals ==
  [sent |-> "", user_id |-> "", activity_type |-> "", emission |-> 0,
   now_str |-> "", prev_hash |-> "", current_hash |-> ""]

ascii_uppercase == "ABCDEFGHIJKLMNOPQRSTUVWXYZ"
ascii_lowercase == "abcdefghijklmnopqrstuvwxyz"

\* str.lower() on one character
LowerChar(c) ==
  LET at == {i \in 1 .. Len(ascii_uppercase) : SubSeq(ascii_uppercase, i, i) = c}
  IN  IF at = {} THEN c
      ELSE LET i == CHOOSE i \in at : TRUE IN SubSeq(ascii_lowercase, i, i)

\* str.lower()
RECURSIVE lower(_)
lower(v) ==
  IF Len(v) = 0 THEN ""
  ELSE LowerChar(SubSeq(v, 1, 1)) \o lower(SubSeq(v, 2, Len(v)))

\* str.strip(), the whitespace being blanks
RECURSIVE strip(_)
strip(v) ==
  IF Len(v) = 0 THEN ""
  ELSE IF SubSeq(v, 1, 1) = " " THEN strip(SubSeq(v, 2, Len(v)))
  ELSE IF SubSeq(v, Len(v), Len(v)) = " " THEN strip(SubSeq(v, 1, Len(v) - 1))
  ELSE v

\* the validator of ActivityCreate.activity_type raises ValueError (HTTP 422)
ValidatorRaises(v) == Len(v) = 0 \/ Len(strip(v)) = 0

\* and otherwise returns the normalised value
validasi_activity_type(v) == lower(strip(v))

\* a check that lets every activity_type through
is_valid_activity_Any(activity_type) == TRUE

is_valid_activity(activity_type) == lower(activity_type) \in ValidTypes

\* prev_hash without the lookup of the last document
LastHash_Genesis(docs) == get_genesis_hash

\* prev_hash left empty for the first record
LastHash_Empty(docs) ==
  IF Len(docs) > 0 THEN docs[Len(docs)].current_hash ELSE ""

\* find_one(sort=[("_id", -1)]) and the choice of prev_hash
LastHash(docs) ==
  IF Len(docs) > 0 THEN docs[Len(docs)].current_hash ELSE get_genesis_hash

\* new_doc with the timestamp taken again when the document is built
NewDoc_ClockAtInsert(l, id) ==
  [id |-> id, user_id |-> l.user_id, activity_type |-> l.activity_type,
   emission |-> l.emission, timestamp |-> isoformat(clock),
   previous_hash |-> l.prev_hash, current_hash |-> l.current_hash]

\* new_doc inserted without its digest, which an update would add afterwards
NewDoc_NoDigest(l, id) ==
  [id |-> id, user_id |-> l.user_id, activity_type |-> l.activity_type,
   emission |-> l.emission, timestamp |-> l.now_str,
   previous_hash |-> l.prev_hash, current_hash |-> ""]

\* new_doc, with the _id insert_one gives it
NewDoc(l, id) ==
  [id |-> id, user_id |-> l.user_id, activity_type |-> l.activity_type,
   emission |-> l.emission, timestamp |-> l.now_str,
   previous_hash |-> l.prev_hash, current_hash |-> l.current_hash]

InFlight == Cardinality({p \in Procs : pc[p] \in {"climatiq", "find_one", "insert_one"}})

SeedLeft == IF spc = "inserting" THEN sloc.left ELSE 0

\* documents already inserted or still to be inserted by calls under way
Claimed == (nextId - 1) + InFlight + SeedLeft

\* the request arrives with activity_type in its body; the validator of
\* ActivityCreate runs, then step 1 validates activity_type, step 2 calls Climatiq
Request(p, user_id, activity_type) ==
  /\ pc[p] = "idle"
  /\ \A q \in Procs : q < p => pc[q] # "idle"   \* requests are interchangeable
  /\ Claimed < MaxRecords
  /\ IF ValidatorRaises(activity_type)
       THEN /\ pc' = [pc EXCEPT ![p] = "error422"]
            /\ loc' = [loc EXCEPT ![p] = [NoLocals EXCEPT !.sent = activity_type]]
     ELSE IF is_valid_activity(validasi_activity_type(activity_type))
       THEN /\ pc' = [pc EXCEPT ![p] = "climatiq"]
            /\ loc' = [loc EXCEPT ![p] =
                        [NoLocals EXCEPT !.sent = activity_type,
                           !.user_id = user_id,
                           !.activity_type = validasi_activity_type(activity_type)]]
       ELSE /\ pc' = [pc EXCEPT ![p] = "error400"]
            /\ loc' = [loc EXCEPT ![p] = [NoLocals EXCEPT !.sent = activity_type]]
  /\ UNCHANGED <<store, nextId, clock, returned, verVars, seedVars, tamper, delVars, hashVars>>

\* estimate_emission raised ClimatiqAPIError: HTTP 503
EstimateFailed(p) ==
  /\ pc[p] = "climatiq"
  /\ pc' = [pc EXCEPT ![p] = "error503"]
  /\ loc' = [loc EXCEPT ![p] = [NoLocals EXCEPT !.sent = loc[p].sent]]
  /\ UNCHANGED <<store, nextId, clock, returned, verVars, seedVars, tamper, delVars, hashVars>>

\* estimate_emission returned co2e; step 3 takes now_str and issues find_one.
\* The clock has stood still (dt = 0) or moved on since it was last read.
Estimated(p, co2e, dt) ==
  /\ pc[p] = "climatiq"
  /\ clock + dt <= MaxClock
  /\ clock' = clock + dt
  /\ pc' = [pc EXCEPT ![p] = "find_one"]
  /\ loc' = [loc EXCEPT ![p].emission = co2e, ![p].now_str = isoformat(clock')]
  /\ UNCHANGED <<store, nextId, returned, verVars, seedVars, tamper, delVars, hashVars>>

\* find_one answers; prev_hash and current_hash are computed, insert_one issued
FindLast(p) ==
  /\ pc[p] = "find_one"
  /\ LET prev_hash == LastHash(store)
         l == loc[p]
     IN  loc' = [loc EXCEPT ![p].prev_hash = prev_hash,
                   ![p].current_hash =
                     generate_hash(prev_hash, l.user_id, l.activity_type,
                                   l.emission, l.now_str)]
  /\ pc' = [pc EXCEPT ![p] = "insert_one"]
  /\ UNCHANGED <<store, nextId, clock, returned, verVars, seedVars, tamper, delVars, hashVars>>

\* insert_one commits new_doc
InsertOne(p) ==
  /\ pc[p] = "insert_one"
  /\ store' = Append(store, NewDoc(loc[p], nextId))
  /\ nextId' = nextId + 1
  /\ pc' = [pc EXCEPT ![p] = "inserted"]
  /\ UNCHANGED <<clock, loc, returned, verVars, seedVars, tamper, delVars, hashVars>>

\* get_db or find_one raised: the generic handler turns it into HTTP 500
FindFailed(p) ==
  /\ pc[p] = "find_one"
  /\ pc' = [pc EXCEPT ![p] = "error500"]
  /\ loc' = [loc EXCEPT ![p] = [NoLocals EXCEPT !.sent = loc[p].sent]]
  /\ UNCHANGED <<store, nextId, clock, returned, verVars, seedVars, tamper,
                 delVars, hashVars>>

\* insert_one raised and the document was not written: HTTP 500
InsertFailed(p) ==
  /\ pc[p] = "insert_one"
  /\ pc' = [pc EXCEPT ![p] = "error500"]
  /\ loc' = [loc EXCEPT ![p] = [NoLocals EXCEPT !.sent = loc[p].sent]]
  /\ UNCHANGED <<store, nextId, clock, returned, verVars, seedVars, tamper,
                 delVars, hashVars>>

\* the document was written but the call did not get to its response: the
\* acknowledgement timed out, or building the ActivityResponse raised: HTTP 500
InsertUnacknowledged(p) ==
  /\ pc[p] = "insert_one"
  /\ store' = Append(store, NewDoc(loc[p], nextId))
  /\ nextId' = nextId + 1
  /\ pc' = [pc EXCEPT ![p] = "error500"]
  /\ loc' = [loc EXCEPT ![p] = [NoLocals EXCEPT !.sent = loc[p].sent]]
  /\ UNCHANGED <<clock, returned, verVars, seedVars, tamper, delVars, hashVars>>

\* step 5: the ActivityResponse goes back to the caller
Respond(p) ==
  /\ pc[p] = "inserted"
  /\ pc' = [pc EXCEPT ![p] = "idle"]
  /\ loc' = [loc EXCEPT ![p] = NoLocals]
  /\ returned' = returned + 1
  /\ UNCHANGED <<store, nextId, clock, verVars, seedVars, tamper, delVars, hashVars>>

\* the HTTPException goes back to the caller
Raise(p) ==
  /\ pc[p] \in {"error422", "error400", "error503", "error500"}
  /\ pc' = [pc EXCEPT ![p] = "idle"]
  /\ loc' = [loc EXCEPT ![p] = NoLocals]
  /\ UNCHANGED <<store, nextId, clock, returned, verVars, seedVars, tamper, delVars, hashVars>>

\* ------------------------------------------------------------ verify_chain call
\* no call of verify_chain has returned
NoResult ==
  [valid |-> TRUE, total_records |-> 0, message |-> "", record_number |-> 0,
   invalid_record_id |-> NoId]

\* count_documents({}); an empty database returns at once
VerifyCount ==
  /\ vpc = "idle"
  /\ vtotal' = Len(store)
  /\ vscan' = << >>
  /\ IF Len(store) = 0
       THEN /\ vpc' = "returned"
            /\ vresult' = ResultEmpty
       ELSE /\ vpc' = "cursor"
            /\ vresult' = vresult
  /\ UNCHANGED <<store, nextId, clock, appVars, seedVars, tamper, delVars, hashVars>>

\* a scan that drops the records from the first failing one on
VerifyScan_Prune ==
  /\ vpc = "cursor"
  /\ vscan' = store
  /\ vresult' = ChainLoop(store, 1, get_genesis_hash, vtotal)
  /\ vpc' = "returned"
  /\ store' = IF vresult'.valid THEN store
              ELSE SubSeq(store, 1, vresult'.record_number - 1)
  /\ UNCHANGED <<nextId, clock, appVars, vtotal, seedVars, tamper, delVars, hashVars>>

\* a scan that waits until the collection has as many documents as were counted
VerifyScan_UntilCountMatches ==
  /\ vpc = "cursor"
  /\ Len(store) = vtotal
  /\ vscan' = store
  /\ vresult' = ChainLoop(store, 1, get_genesis_hash, vtotal)
  /\ vpc' = "returned"
  /\ UNCHANGED <<store, nextId, clock, appVars, vtotal, seedVars, tamper, delVars, hashVars>>

\* find().sort("_id", 1) and the loop over it
VerifyScan ==
  /\ vpc = "cursor"
  /\ vscan' = store
  /\ vresult' = ChainLoop(store, 1, get_genesis_hash, vtotal)
  /\ vpc' = "returned"
  /\ UNCHANGED <<store, nextId, clock, appVars, vtotal, seedVars, tamper, delVars, hashVars>>

\* the caller has the result
VerifyDone ==
  /\ vpc = "returned"
  /\ vpc' = "idle"
  /\ vtotal' = 0
  /\ vscan' = << >>
  /\ vresult' = NoResult
  /\ UNCHANGED <<store, nextId, clock, appVars, seedVars, tamper, delVars, hashVars>>

\* ------------------------------------------------------------ verify_chain_for_user
\* the result with the tag that says what was verified
WithScope(result, scope) ==
  [f \in DOMAIN result \cup {"scope"} |->
     IF f = "scope" THEN scope ELSE result[f]]

\* the documents of user_id in the ordered scan
OwnedBy(docs, user_id) == SelectSeq(docs, LAMBDA r : r.user_id = user_id)

\* a loop that also links each record to the user's record before it
RECURSIVE OwnerLoop_Linked(_, _, _)
OwnerLoop_Linked(cursor, i, total_records) ==
  IF i > Len(cursor)
    THEN ResultValid(total_records)
    ELSE LET record == cursor[i] IN
      IF i > 1 /\ record.previous_hash # cursor[i - 1].current_hash
        THEN ResultInvalid(total_records, "Chain terputus", i, record)
      ELSE IF ~verify_hash(record)
        THEN ResultInvalid(total_records, "Hash tidak valid", i, record)
      ELSE OwnerLoop_Linked(cursor, i + 1, total_records)

\* the loop over the user's records: each one's own digest is recomputed
RECURSIVE OwnerLoop(_, _, _)
OwnerLoop(cursor, i, total_records) ==
  IF i > Len(cursor)
    THEN ResultValid(total_records)
    ELSE LET record == cursor[i] IN
      IF ~verify_hash(record)
        THEN ResultInvalid(total_records, "Hash tidak valid", i, record)
      ELSE OwnerLoop(cursor, i + 1, total_records)

verify_chain_for_user(docs, user_id) ==
  LET mine == OwnedBy(docs, user_id)
  IN  WithScope(IF Len(mine) = 0 THEN ResultEmpty
                ELSE OwnerLoop(mine, 1, Len(mine)),
                "owner")

\* GET /api/verify-chain?user_id=...: verify_chain_for_user(db, user_id)
VerifyUser(user_id) ==
  /\ vpc = "idle"
  /\ vscan' = OwnedBy(store, user_id)
  /\ vtotal' = Len(vscan')
  /\ vresult' = verify_chain_for_user(store, user_id)
  /\ vpc' = "returned_user"
  /\ UNCHANGED <<store, nextId, clock, appVars, seedVars, tamper, delVars, hashVars>>

\* the caller has the result
VerifyUserDone ==
  /\ vpc = "returned_user"
  /\ vpc' = "idle"
  /\ vtotal' = 0
  /\ vscan' = << >>
  /\ vresult' = NoResult
  /\ UNCHANGED <<store, nextId, clock, appVars, seedVars, tamper, delVars, hashVars>>

\* the HashVerificationResponse verify_hash_chain builds from the result
HashVerificationResponse(result) ==
  [valid |-> result.valid, total_records |-> result.total_records,
   message |-> result.message, invalid_record_id |-> result.invalid_record_id]

\* ------------------------------------------------------------ seeding
NoSeed == [user_id |-> "", previous_hash |-> "", left |-> 0, last |-> 0]

SeedTypes == {"car"}                  \* ACTIVITY_TEMPLATES, activity_type

\* the clock reading an isoformat timestamp was made from
TimeOf(timestamp) ==
  CHOOSE t \in 0 .. MaxClock : isoformat(t) = timestamp

\* find_one({"user_id": user_id}, sort=[("timestamp", -1)]): the documents
\* that query can return, none when the user has no document
LastOfUser(docs, user_id) ==
  LET mine == {i \in DOMAIN docs : docs[i].user_id = user_id}
  IN  {docs[i] : i \in {k \in mine :
         \A j \in mine : TimeOf(docs[j].timestamp) <= TimeOf(docs[k].timestamp)}}

\* the previous_hash create_activities_for_user starts from
SeedPrevious(last_activity) ==
  IF last_activity = {} THEN {get_genesis_hash}
  ELSE {r.current_hash : r \in last_activity}

\* activity_doc as inserted, with the _id insert_one gives it
SeedDoc(l, activity_type, emission, activity_time, id) ==
  [id |-> id, user_id |-> l.user_id, activity_type |-> activity_type,
   emission |-> emission, timestamp |-> isoformat(activity_time),
   previous_hash |-> l.previous_hash,
   current_hash |-> generate_hash(l.previous_hash, l.user_id, activity_type,
                                  emission, isoformat(activity_time))]

\* create_activities_for_user is called: it reads the user's last activity and
\* draws the activities to insert (n of them, drawn one by one below)
SeedStart(user_id, n) ==
  /\ spc = "idle"
  /\ Claimed + n <= MaxRecords
  /\ \E h \in SeedPrevious(LastOfUser(store, user_id)) :
       sloc' = [user_id |-> user_id, previous_hash |-> h, left |-> n, last |-> 0]
  /\ spc' = "inserting"
  /\ UNCHANGED <<store, nextId, clock, appVars, verVars, tamper, delVars, hashVars>>

\* one turn of the insert loop over activities_to_insert, sorted by time
SeedInsert(activity_type, emission, activity_time) ==
  /\ spc = "inserting"
  /\ sloc.left > 0
  /\ activity_time >= sloc.last
  /\ LET doc == SeedDoc(sloc, activity_type, emission, activity_time, nextId)
     IN  /\ store' = Append(store, doc)
         /\ sloc' = [sloc EXCEPT !.previous_hash = doc.current_hash,
                                 !.left = sloc.left - 1,
                                 !.last = activity_time]
  /\ nextId' = nextId + 1
  /\ UNCHANGED <<clock, appVars, verVars, spc, tamper, delVars, hashVars>>

\* create_activities_for_user returns
SeedReturn ==
  /\ spc = "inserting"
  /\ sloc.left = 0
  /\ spc' = "idle"
  /\ sloc' = NoSeed
  /\ UNCHANGED <<store, nextId, clock, appVars, verVars, tamper, delVars, hashVars>>

\* ------------------------------------------------------------ delete_account
NoDelete == [user_id |-> "", deleted_count |-> 0]

\* delete_many({}): the filter on user_id left out
Remaining_None(docs, user_id) == << >>

\* what delete_many({"user_id": user_id}) leaves of activity_logs
Remaining(docs, user_id) == SelectSeq(docs, LAMBDA r : r.user_id # user_id)

\* the row log_audit inserts into activity_audit
AuditRow(l) ==
  [user_id |-> l.user_id, action_type |-> "DELETE", entity |-> "user",
   entity_id |-> l.user_id, activities_deleted |-> l.deleted_count]

\* the request arrives with the token of user_id, which stays valid whether or
\* not the users collection still holds the user; delete_many is issued
DeleteMany(user_id) ==
  /\ dpc = "idle"
  /\ store' = Remaining(store, user_id)
  /\ dloc' = [user_id |-> user_id,
              deleted_count |-> Len(store) - Len(store')]
  /\ dpc' = "delete_one"
  /\ UNCHANGED <<nextId, clock, appVars, verVars, seedVars, tamper, users, audit,
                 hashVars>>

\* delete_one on users; deleted_count == 0 raises HTTP 404
DeleteOne ==
  /\ dpc = "delete_one"
  /\ IF dloc.user_id \in users
       THEN /\ users' = users \ {dloc.user_id}
            /\ dpc' = "log_audit"
       ELSE /\ users' = users
            /\ dpc' = "error404"
  /\ UNCHANGED <<store, nextId, clock, appVars, verVars, seedVars, tamper,
                 audit, dloc, hashVars>>

\* log_audit: the row is inserted, or Cassandra is not available (or the
\* insert raises) and log_audit returns False, which the caller ignores
LogAudit(available) ==
  /\ dpc = "log_audit"
  /\ audit' = IF available THEN Append(audit, AuditRow(dloc)) ELSE audit
  /\ dpc' = "done"
  /\ UNCHANGED <<store, nextId, clock, appVars, verVars, seedVars, tamper,
                 users, dloc, hashVars>>

\* the response, or the HTTPException, goes back to the caller
DeleteReturn ==
  /\ dpc \in {"done", "error404"}
  /\ dpc' = "idle"
  /\ dloc' = NoDelete
  /\ UNCHANGED <<store, nextId, clock, appVars, verVars, seedVars, tamper,
                 users, audit, hashVars>>

\* ------------------------------------------------------------ tampering
NoTamper == [id |-> NoId, field |-> ""]

Fields == {"user_id", "activity_type", "emission", "timestamp",
           "previous_hash", "current_hash"}

\* the values a field can be overwritten with
FieldValues(field) ==
  CASE field = "user_id" -> Users
    [] field = "activity_type" -> ValidTypes
    [] field = "emission" -> TamperEmissions
    [] field = "timestamp" -> {isoformat(t) : t \in 0 .. MaxClock}
    [] OTHER -> {get_genesis_hash, Repeat("f", HashLen)}
                  \cup {store[i].current_hash : i \in DOMAIN store}

\* no call is under way
Quiet ==
  /\ \A p \in Procs : pc[p] = "idle"
  /\ vpc = "idle"
  /\ spc = "idle"

\* one field of one stored document is overwritten directly in MongoDB
Tamper(i, field, value) ==
  /\ Quiet
  /\ tamper = NoTamper
  /\ i \in DOMAIN store
  /\ value # store[i][field]
  /\ store' = [store EXCEPT ![i][field] = value]
  /\ tamper' = [id |-> store[i].id, field |-> field]
  /\ UNCHANGED <<nextId, clock, appVars, verVars, seedVars, delVars, hashVars>>

\* one stored document is removed directly in MongoDB
Remove(i) ==
  /\ Quiet
  /\ tamper = NoTamper
  /\ i \in DOMAIN store
  /\ store' = SubSeq(store, 1, i - 1) \o SubSeq(store, i + 1, Len(store))
  /\ tamper' = [id |-> store[i].id,
                field |-> IF i = Len(store) THEN "removed_last" ELSE "removed"]
  /\ UNCHANGED <<nextId, clock, appVars, verVars, seedVars, delVars, hashVars>>

\* the documents that can be slipped in after document i: any fields, the
\* previous_hash that links to document i or the genesis hash, and as
\* current_hash the digest of the forged fields or the hash document i has
Forged(i) ==
  UNION {
    {[id |-> nextId, user_id |-> u, activity_type |-> a, emission |-> e,
      timestamp |-> store[i].timestamp, previous_hash |-> p, current_hash |-> c] :
       c \in {generate_hash(p, u, a, e, store[i].timestamp),
              store[i].current_hash}} :
    u \in Users, a \in SeedTypes, e \in Emissions,
    p \in {store[i].current_hash, get_genesis_hash}}

\* a document that create_activity did not make is inserted directly in
\* MongoDB between documents i and i + 1
Insert(i) ==
  /\ Quiet
  /\ tamper = NoTamper
  /\ Claimed < MaxRecords
  /\ i \in 1 .. (Len(store) - 1)
  /\ \E record \in Forged(i) :
       /\ store' = SubSeq(store, 1, i) \o <<record>>
                     \o SubSeq(store, i + 1, Len(store))
       /\ tamper' = [id |-> record.id, field |-> "inserted"]
  /\ nextId' = nextId + 1
  /\ UNCHANGED <<clock, appVars, verVars, seedVars, delVars, hashVars>>

\* ------------------------------------------------------------ generate_hash calls
\* the values generate_hash is called with, field by field
HashPrevious == {get_genesis_hash, Repeat("f", HashLen)}
HashUsers == {"u1", "u12"}
HashTypes == {"car", "2car"}
HashEmissions == TamperEmissions
HashTimes == {isoformat(t) : t \in 0 .. MaxClock}

HashArgs ==
  [previous_hash : HashPrevious, user_id : HashUsers, activity_type : HashTypes,
   carbon_emission : HashEmissions, timestamp : HashTimes]

NoCall == [a |-> << >>, b |-> << >>]
NoDigests == [a |-> << >>, b |-> << >>]

\* generate_hash on one tuple: the payload it builds and the digest it returns
Hashed(x) ==
  [payload |-> Payload(x.previous_hash, x.user_id, x.activity_type,
                       x.carbon_emission, x.timestamp),
   digest |-> generate_hash(x.previous_hash, x.user_id, x.activity_type,
                            x.carbon_emission, x.timestamp)]

\* generate_hash is called on the two tuples
GenerateHashes ==
  /\ hin # NoCall
  /\ hout = NoDigests
  /\ hout' = [a |-> Hashed(hin.a), b |-> Hashed(hin.b)]
  /\ UNCHANGED <<store, nextId, clock, appVars, verVars, seedVars, tamper,
                 delVars, hin>>

\* ------------------------------------------------------------ specifications
Init ==
  /\ store = << >>
  /\ nextId = 1
  /\ clock = 0
  /\ pc = [p \in Procs |-> "idle"]
  /\ loc = [p \in Procs |-> NoLocals]
  /\ returned = 0
  /\ vpc = "idle"
  /\ vtotal = 0
  /\ vscan = << >>
  /\ vresult = NoResult
  /\ spc = "idle"
  /\ sloc = NoSeed
  /\ tamper = NoTamper
  /\ users = Users
  /\ audit = << >>
  /\ dpc = "idle"
  /\ dloc = NoDelete
  /\ hin = NoCall
  /\ hout = NoDigests

\* concurrent create_activity requests that pass validation and get their
\* emission from Climatiq: the requests that reach the store
Next ==
  \/ \E p \in Procs, u \in Users, a \in ValidTypes \cap RequestTypes :
       Request(p, u, a)
  \/ \E p \in Procs, e \in Emissions, dt \in {0, 1} : Estimated(p, e, dt)
  \/ \E p \in Procs : FindLast(p)
  \/ \E p \in Procs : InsertOne(p)
  \/ \E p \in Procs : Respond(p)

Spec == Init /\ [][Next]_vars

\* create_activity requests and verify_chain calls, one call at a time
NextSeq ==
  \/ Quiet /\ \E u \in Users, a \in RequestTypes : Request(1, u, a)
  \/ EstimateFailed(1)
  \/ \E e \in Emissions, dt \in {0, 1} : Estimated(1, e, dt)
  \/ FindLast(1)
  \/ InsertOne(1)
  \/ Respond(1)
  \/ Raise(1)
  \/ Quiet /\ VerifyCount
  \/ VerifyScan
  \/ VerifyDone

SpecSeq == Init /\ [][NextSeq]_vars

\* one call at a time, and one overwrite of a stored field behind the
\* application's back
NextTamper ==
  \/ NextSeq
  \/ \E i \in 1 .. MaxRecords, f \in Fields :
       \E v \in FieldValues(f) : Tamper(i, f, v)

SpecTamper == Init /\ [][NextTamper]_vars

\* both writers, create_activity and the seeding routine, one call at a time
NextSeed ==
  \/ Quiet /\ \E u \in Users : Request(1, u, "car")
  \/ \E e \in Emissions, dt \in {0, 1} : Estimated(1, e, dt)
  \/ FindLast(1)
  \/ InsertOne(1)
  \/ Respond(1)
  \/ Quiet /\ \E u \in Users, n \in 1 .. MaxSeedActs : SeedStart(u, n)
  \/ \E a \in SeedTypes, e \in Emissions, t \in 0 .. MaxClock : SeedInsert(a, e, t)
  \/ SeedReturn

SpecSeed == Init /\ [][NextSeed]_vars

\* one call at a time, verify_chain_for_user among the calls, and one overwrite
\* of a stored field behind the application's back
NextOwner ==
  \/ NextTamper
  \/ Quiet /\ \E u \in Users : VerifyUser(u)
  \/ VerifyUserDone

SpecOwner == Init /\ [][NextOwner]_vars

\* concurrent create_activity requests with the two verifications running
\* between their steps
NextVerify ==
  \/ \E p \in Procs, u \in Users : Request(p, u, "car")
  \/ \E p \in Procs, e \in Emissions : Estimated(p, e, 0)
  \/ \E p \in Procs : FindLast(p)
  \/ \E p \in Procs : InsertOne(p)
  \/ \E p \in Procs : Respond(p)
  \/ VerifyCount
  \/ VerifyScan
  \/ VerifyDone
  \/ \E u \in Users : VerifyUser(u)
  \/ VerifyUserDone

SpecVerify == Init /\ [][NextVerify]_vars

\* one call at a time, and one change made behind the application's back: a
\* field overwritten, a document removed or a document inserted
NextAttack ==
  \/ NextTamper
  \/ \E i \in 1 .. MaxRecords : Remove(i)
  \/ \E i \in 1 .. MaxRecords : Insert(i)

SpecAttack == Init /\ [][NextAttack]_vars

LiveUsers == {"u1"}

\* concurrent create_activity requests with every outcome, and verify_chain
\* calls between their steps; a request under way and a call under way are
\* scheduled again and again, and each call they make on the store or on
\* Climatiq comes back with a result or an error
NextLive ==
  \/ Claimed < MaxLiveRecords /\ \E p \in Procs, u \in LiveUsers : Request(p, u, "car")
  \/ \E p \in Procs : EstimateFailed(p)
  \/ \E p \in Procs, e \in Emissions : Estimated(p, e, 0)
  \/ \E p \in Procs : FindFailed(p)
  \/ \E p \in Procs : FindLast(p)
  \/ \E p \in Procs : InsertFailed(p)
  \/ \E p \in Procs : InsertUnacknowledged(p)
  \/ \E p \in Procs : InsertOne(p)
  \/ \E p \in Procs : Respond(p)
  \/ \E p \in Procs : Raise(p)
  \/ VerifyCount
  \/ VerifyScan
  \/ VerifyDone

\* the steps of request p once it has arrived
Proceed(p) ==
  \/ EstimateFailed(p)
  \/ \E e \in Emissions : Estimated(p, e, 0)
  \/ FindFailed(p)
  \/ FindLast(p)
  \/ InsertFailed(p)
  \/ InsertUnacknowledged(p)
  \/ InsertOne(p)
  \/ Respond(p)
  \/ Raise(p)

SpecLive ==
  /\ Init
  /\ [][NextLive]_vars
  /\ \A p \in Procs : WF_vars(Proceed(p))
  /\ WF_vars(VerifyScan \/ VerifyDone)

\* generate_hash alone, on any two argument tuples
InitDigest ==
  /\ store = << >>
  /\ nextId = 1
  /\ clock = 0
  /\ pc = [p \in Procs |-> "idle"]
  /\ loc = [p \in Procs |-> NoLocals]
  /\ returned = 0
  /\ vpc = "idle"
  /\ vtotal = 0
  /\ vscan = << >>
  /\ vresult = NoResult
  /\ spc = "idle"
  /\ sloc = NoSeed
  /\ tamper = NoTamper
  /\ users = Users
  /\ audit = << >>
  /\ dpc = "idle"
  /\ dloc = NoDelete
  /\ hin \in [a : HashArgs, b : HashArgs]
  /\ hout = NoDigests

NextDigest == GenerateHashes

SpecDigest == InitDigest /\ [][NextDigest]_vars

\* create_activity requests, one at a time, with every outcome a call can have
NextFault ==
  \/ \E u \in Users, a \in BodyTypes : Request(1, u, a)
  \/ EstimateFailed(1)
  \/ \E e \in Emissions, dt \in {0, 1} : Estimated(1, e, dt)
  \/ FindFailed(1)
  \/ FindLast(1)
  \/ InsertFailed(1)
  \/ InsertUnacknowledged(1)
  \/ InsertOne(1)
  \/ Respond(1)
  \/ Raise(1)

SpecFault == Init /\ [][NextFault]_vars

\* one create_activity request at a time and one delete_account call at a
\* time, the two interleaved
NextDelete ==
  \/ \E u \in Users : Request(1, u, "car")
  \/ \E e \in Emissions, dt \in {0, 1} : Estimated(1, e, dt)
  \/ FindLast(1)
  \/ InsertOne(1)
  \/ Respond(1)
  \/ \E u \in Users : DeleteMany(u)
  \/ DeleteOne
  \/ \E available \in BOOLEAN : LogAudit(available)
  \/ DeleteReturn

SpecDelete == Init /\ [][NextDelete]_vars

\* create_activity and delete_account, one call at a time
NextDeleteSeq ==
  \/ dpc = "idle" /\ \E u \in Users : Request(1, u, "car")
  \/ \E e \in Emissions, dt \in {0, 1} : Estimated(1, e, dt)
  \/ FindLast(1)
  \/ InsertOne(1)
  \/ Respond(1)
  \/ Quiet /\ \E u \in Users : DeleteMany(u)
  \/ DeleteOne
  \/ \E available \in BOOLEAN : LogAudit(available)
  \/ DeleteReturn

SpecDeleteSeq == Init /\ [][NextDeleteSeq]_vars

\* ------------------------------------------------------------ properties
Zeros64 == "0000000000000000000000000000000000000000000000000000000000000000"

AllIdle == \A p \in Procs : pc[p] = "idle"

\* the hash a document at place k of docs has to link to
Predecessor(docs, k) == IF k = 1 THEN Zeros64 ELSE docs[k - 1].current_hash

\* document k of docs passes CHECK 1 (the link) and CHECK 2 (the digest)
Passes(docs, k) ==
  /\ docs[k].previous_hash = Predecessor(docs, k)
  /\ docs[k].current_hash =
       "<" \o docs[k].previous_hash \o docs[k].user_id \o docs[k].activity_type
           \o PyStr(docs[k].emission) \o docs[k].timestamp \o ">"

\* C1: no two committed records carry the same previous_hash, whatever the
\* interleaving of the create_activity requests.
C1_OneCommitPerPredecessor ==
  \A i, j \in DOMAIN store :
    i # j => store[i].previous_hash # store[j].previous_hash

\* C2: once every create_activity call started has returned, the store holds
\* one record per call that returned a response, and the records form one
\* chain that verify_chain finds valid.
C2_ConcurrentAppendsOneChain ==
  AllIdle =>
    /\ Len(store) = returned
    /\ verify_chain(store).valid

\* C3: with the calls made one after another on a store that began empty,
\* verify_chain returns valid = True and total_records = the number of
\* appends made, 0 included.
C3_SequentialChainValid ==
  vpc = "returned" =>
    /\ vresult.valid
    /\ vresult.total_records = returned
    /\ returned = Len(store)

C3_Witness ==
  /\ vpc = "returned"
  /\ vresult.valid
  /\ vresult.total_records = 3

\* C4: after one field of one committed record R was overwritten with another
\* value, verify_chain returns valid = False and names R; if the field is
\* previous_hash the failure is the broken link ("Chain terputus").
C4_TamperNamesRecord ==
  (vpc = "returned" /\ tamper # NoTamper) =>
    /\ ~vresult.valid
    /\ vresult.invalid_record_id = tamper.id
    /\ tamper.field = "previous_hash" => vresult.message = "Chain terputus"

C4_Witness ==
  /\ vpc = "returned"
  /\ tamper.field = "previous_hash"
  /\ tamper.id = 2
  /\ Len(vscan) = 3

\* the case of C5: three records of one owner, the emission of the second
\* overwritten, and verify_chain has returned
C5_Case ==
  /\ vpc = "returned"
  /\ Len(store) = 3
  /\ \A i \in DOMAIN store : store[i].user_id = store[1].user_id
  /\ tamper = [id |-> store[2].id, field |-> "emission"]

C6_UniqueEarlierPredecessor ==
  \A j \in DOMAIN store :
    store[j].previous_hash # Zeros64 =>
      LET parents == {i \in DOMAIN store :
                        store[i].current_hash = store[j].previous_hash}
      IN  /\ Cardinality(parents) = 1
          /\ \A i \in parents : i < j

\* C7: every committed record stores the current_hash that the digest of its
\* own stored fields gives, in every state after its commit.
C7_StoredDigestRecomputes ==
  \A i \in DOMAIN store :
    store[i].current_hash =
      "<" \o store[i].previous_hash \o store[i].user_id \o store[i].activity_type
          \o PyStr(store[i].emission) \o store[i].timestamp \o ">"

C7_Witness ==
  /\ Len(store) = 3
  /\ store[2].previous_hash = store[1].previous_hash
  /\ store[3].timestamp # store[1].timestamp

\* C8: every insert, by create_activity or by the seeding routine, links the
\* new record to the last record of the whole store, whoever owns it, and to
\* the genesis hash only when the store is empty.
C8_LinksToGlobalTip ==
  [][Len(store') = Len(store) + 1 =>
       store'[Len(store')].previous_hash =
         (IF Len(store) = 0 THEN Zeros64 ELSE store[Len(store)].current_hash)]_vars

C10_FirstFailureNamed ==
  (vpc = "returned" /\ ~vresult.valid) =>
    \E k \in DOMAIN vscan :
      /\ vscan[k].id = vresult.invalid_record_id
      /\ ~Passes(vscan, k)
      /\ \A j \in 1 .. (k - 1) : Passes(vscan, j)

C10_Witness ==
  /\ vpc = "returned"
  /\ ~vresult.valid
  /\ vresult.message = "Hash tidak valid"
  /\ vresult.record_number = 1
  /\ Len(vscan) = 3
  /\ ~Passes(vscan, 2)

\* C11 as stated: no step of any operation changes a field of, or removes, a
\* committed record: every record of the store is still there afterwards.
C11_NeverChangedOrRemoved ==
  [][\A i \in DOMAIN store : \E j \in DOMAIN store' : store'[j] = store[i]]_vars

\* C11 as amended: no step changes a field of a committed record, and the only
\* step that removes records is delete_account's delete_many, which removes the
\* records of the calling user and no others.
C11_RemovedOnlyByOwnerDelete ==
  [][\A i \in DOMAIN store :
       \/ \E j \in DOMAIN store' : store'[j] = store[i]
       \/ /\ dpc = "idle"
          /\ dpc' = "delete_one"
          /\ store[i].user_id = dloc'.user_id
          /\ \A j \in DOMAIN store' : store'[j].id # store[i].id]_vars

C11_Witness ==
  /\ dpc = "delete_one"
  /\ dloc.deleted_count = 2
  /\ Len(store) = 1
  /\ store[1].id = 2

\* C12: a delete_account call that removed at least one activity record has,
\* when it returns (with its response or with an error), a row in the audit log
\* that records the deletion.
C12_DeletionAudited ==
  (dpc \in {"done", "error404"} /\ dloc.deleted_count > 0) =>
    \E i \in DOMAIN audit : audit[i] = AuditRow(dloc)

\* C13: an append whose tip moved between its read of the tip and its insert
\* does not commit: every insert links the new record to the record that is
\* the last of the store at the moment of the insert.
C13_NoCommitOnStaleTip ==
  [][\A p \in Procs :
       (pc[p] = "insert_one" /\ pc'[p] = "inserted") =>
         loc[p].prev_hash =
           (IF Len(store) = 0 THEN Zeros64 ELSE store[Len(store)].current_hash)]_vars

\* the fields of an activity_logs document
DocFields == {"id", "user_id", "activity_type", "emission", "timestamp",
              "previous_hash", "current_hash"}

\* a stored document that has every field, both digests among them, the
\* current_hash being the digest of the other fields
Complete(r) ==
  /\ DOMAIN r = DocFields
  /\ r.user_id \in {"u1", "u2"}
  /\ r.activity_type \in {"car", "bus"}
  /\ Len(r.timestamp) > 0
  /\ Len(r.previous_hash) > 0
  /\ r.current_hash =
       "<" \o r.previous_hash \o r.user_id \o r.activity_type
           \o PyStr(r.emission) \o r.timestamp \o ">"

\* C14: whatever the outcome of a create_activity call (response, 422, 400,
\* 503, 500 at the tip read or at the insert, lost acknowledgement), each of
\* its steps leaves the store as it was or adds exactly one complete record at
\* the end, and only the insert step of a call adds one.
C14_OneCompleteRecordOrNothing ==
  [][\/ store' = store
     \/ /\ Len(store') = Len(store) + 1
        /\ SubSeq(store', 1, Len(store)) = store
        /\ Complete(store'[Len(store')])
        /\ \E p \in Procs :
             /\ pc[p] = "insert_one"
             /\ pc'[p] \in {"inserted", "error500"}]_vars

C14_Witness ==
  /\ Len(store) = 2
  /\ pc[1] = "error500"
  /\ returned = 0

\* the activity_type values that are empty, blank or no known type
BadTypes == {"", "  ", "helicopter"}

\* C15: a create_activity request whose activity_type is empty, blank or not a
\* known type ends in an error (422 or 400) at its first step, without reaching
\* the read of the last record or the insert, and leaves the store as it was.
C15_RejectedBeforeStore ==
  [][\A p \in Procs :
       /\ (pc[p] = "idle" /\ pc'[p] # "idle" /\ loc'[p].sent \in BadTypes) =>
            /\ pc'[p] \in {"error422", "error400"}
            /\ store' = store
       /\ pc[p] \in {"error422", "error400"} =>
            /\ pc'[p] \in {pc[p], "idle"}
            /\ pc'[p] = "idle" => store' = store]_vars

C15_Witness ==
  /\ Len(store) = 1
  /\ pc[1] = "error422"
  /\ loc[1].sent = "  "

\* C16: on a store built by appends in which the records of two users are
\* interleaved, verification for one user returns valid = True over that
\* user's records: each is judged by its own digest only, never by a link to
\* the same user's record before it.
C16_OwnerScopedValid ==
  vpc = "returned_user" =>
    /\ vresult.valid
    /\ vresult.total_records = Len(vscan)
    /\ \A k \in DOMAIN vscan : vscan[k].user_id = vscan[1].user_id

C16_Witness ==
  /\ vpc = "returned_user"
  /\ vresult.valid
  /\ Len(store) = 3
  /\ verify_chain(store).valid
  /\ Len(vscan) = 2
  /\ vscan[2].previous_hash # vscan[1].current_hash

\* C17: the response of every verification carries a scope tag; the response
\* of a verification for one user has scope "owner" and the response of a
\* verification of the whole chain has another scope.
C17_ResponseCarriesScope ==
  vpc \in {"returned", "returned_user"} =>
    LET response == HashVerificationResponse(vresult) IN
      /\ "scope" \in DOMAIN response
      /\ (response["scope"] = "owner") <=> (vpc = "returned_user")

\* C18: in every state of the store, overwritten records included, if the
\* verification of the whole chain is valid then so is the verification for
\* each user.
C18_GlobalValidImpliesOwnerValid ==
  verify_chain(store).valid =>
    \A u \in {"u1", "u2"} : verify_chain_for_user(store, u).valid

C18_Witness ==
  /\ vpc = "returned_user"
  /\ vresult.valid
  /\ vresult.total_records = 1
  /\ Len(store) = 3
  /\ tamper = NoTamper
  /\ verify_chain(store).valid

\* C19: when verify_chain returns valid = True while create_activity requests
\* are under way, every record that was in the store when verify_chain began
\* (its count_documents) passes the link check against the record before it
\* and the digest check.
C19_NoFalseValid ==
  (vpc = "returned" /\ vresult.valid) =>
    \A k \in 1 .. vtotal : Passes(store, k)

C19_Witness ==
  /\ vpc = "returned"
  /\ vresult.valid
  /\ vtotal = 1
  /\ Len(vscan) = 2
  /\ Len(store) = 3
  /\ ~Passes(store, 3)

\* C20: no step of a verification, of the whole chain or for one user,
\* changes the store, whatever the result.
C20_VerifyReadOnly ==
  [][vpc' # vpc => (store' = store /\ nextId' = nextId)]_vars

C20_Witness ==
  /\ vpc = "returned"
  /\ ~vresult.valid
  /\ vresult.record_number = 2
  /\ vscan = store
  /\ Len(store) = 3

\* the fields in which two argument tuples of generate_hash differ
Differing(x, y) == {f \in DOMAIN x : x[f] # y[f]}

\* C23: two calls of generate_hash whose arguments differ in exactly one of
\* previous_hash, user_id, activity_type, carbon_emission and timestamp hash
\* different payloads and return different digests.
C23_SingleFieldChangesDigest ==
  (hout # NoDigests /\ Cardinality(Differing(hin.a, hin.b)) = 1) =>
    /\ hout.a.payload # hout.b.payload
    /\ hout.a.digest # hout.b.digest

C23_Witness ==
  /\ hout # NoDigests
  /\ Differing(hin.a, hin.b) = {"carbon_emission"}
  /\ hin.a.carbon_emission = 120
  /\ hin.b.carbon_emission = 121
  /\ hout.a.digest # hout.b.digest

\* C29: two calls of generate_hash whose arguments differ in one or more
\* fields hash different payloads, so a record whose fields were overwritten
\* no longer has the digest it stores.
C29_DistinctInputsDistinctPayloads ==
  (hout # NoDigests /\ hin.a # hin.b) =>
    /\ hout.a.payload # hout.b.payload
    /\ hout.a.digest # hout.b.digest

C22_TimestampsNonDecreasing ==
  \A i, j \in DOMAIN store :
    i < j => TimeOf(store[i].timestamp) <= TimeOf(store[j].timestamp)

\* C24: under fair scheduling, with every call on the store and on Climatiq
\* coming back, every create_activity request that has arrived and every
\* verify_chain call that has begun returns, whatever else runs between its
\* steps.
C24_EveryCallReturns ==
  /\ \A p \in Procs : (pc[p] # "idle") ~> (pc[p] = "idle")
  /\ (vpc # "idle") ~> (vpc = "idle")

C24_Witness ==
  /\ vpc = "cursor"
  /\ vtotal = 1
  /\ Len(store) = 2
  /\ pc[1] = "inserted"
  /\ pc[2] = "error500"

\* the digest of the stored fields of document k of docs is its current_hash
DigestHolds(docs, k) ==
  docs[k].current_hash =
    "<" \o docs[k].previous_hash \o docs[k].user_id \o docs[k].activity_type
        \o PyStr(docs[k].emission) \o docs[k].timestamp \o ">"

\* C25: at the record verify_chain reports, a previous_hash that differs from
\* the hash expected is reported as a broken link ("Chain terputus") even when
\* the record's own digest fails too, and a digest mismatch ("Hash tidak
\* valid") is reported only for a record whose link holds.
C25_LinkCheckedFirst ==
  (vpc = "returned" /\ ~vresult.valid) =>
    LET k == vresult.record_number IN
      /\ k \in DOMAIN vscan
      /\ vscan[k].previous_hash # Predecessor(vscan, k) =>
           vresult.message = "Chain terputus"
      /\ vresult.message = "Hash tidak valid" =>
           /\ vscan[k].previous_hash = Predecessor(vscan, k)
           /\ ~DigestHolds(vscan, k)

C25_Witness ==
  /\ vpc = "returned"
  /\ vresult.message = "Chain terputus"
  /\ vresult.record_number = 2
  /\ ~DigestHolds(vscan, 2)
  /\ Len(vscan) = 3

\* C26: when verify_chain returns valid = True, total_records is the number
\* of records its scan went through, also when records were committed between
\* its count and its scan.
C26_TotalIsScanned ==
  (vpc = "returned" /\ vresult.valid) => vresult.total_records = Len(vscan)

\* delete_many of delete_account removes the documents of an owner who has a
\* document that a surviving document of another owner follows
RemovesPredecessor ==
  /\ dpc = "idle" /\ dpc' = "delete_one"
  /\ \E i, j \in DOMAIN store :
       /\ i < j
       /\ store[i].user_id = dloc'.user_id
       /\ store[j].user_id # dloc'.user_id

\* a stored document whose predecessor is no longer in the collection
Orphaned(docs) ==
  \E k \in DOMAIN docs :
    docs[k].previous_hash \notin
      {Zeros64} \cup {docs[i].current_hash : i \in DOMAIN docs}

C28_FailureStaysPut ==
  [][(/\ ~verify_chain(store).valid
      /\ Len(store') = Len(store) + 1
      /\ SubSeq(store', 1, Len(store)) = store)
       => /\ ~verify_chain(store').valid
          /\ verify_chain(store').invalid_record_id
               = verify_chain(store).invalid_record_id
          /\ verify_chain(store').record_number
               = verify_chain(store).record_number
          /\ verify_chain(store').message = verify_chain(store).message]_vars

C28_Witness ==
  /\ pc[1] = "inserted"
  /\ tamper.field = "current_hash"
  /\ Len(store) = 3
  /\ ~verify_chain(store).valid
  /\ verify_chain(store).invalid_record_id = tamper.id
  /\ verify_chain(store).record_number = 2

\* C30: no create_activity request of an owner other than the ones whose
\* account is or was deleted commits a record whose previous_hash is the
\* current_hash of a record that delete_account has removed: the record a new
\* one links to is in the collection when the new one is inserted (or the
\* collection is empty and the link is the genesis hash), whatever the
\* interleaving with delete_account, and verify_chain stays valid.
C30_NoLinkToDeletedRecord ==
  [][(/\ Len(store') = Len(store) + 1
      /\ store'[Len(store')].user_id \in users
      /\ store'[Len(store')].user_id # dloc.user_id
      /\ verify_chain(store).valid)
       => /\ store'[Len(store')].previous_hash \in
               IF Len(store) = 0 THEN {Zeros64}
               ELSE {store[i].current_hash : i \in DOMAIN store}
          /\ verify_chain(store').valid]_vars

=============================================================================
